---------------------------- MODULE Spec2Model ----------------------------
(***************************************************************************)
(* A model of the NAT table of src/src/nat_v4.rs: the entry vector, the   *)
(* monotonic clock it reads, and one action per public method.  Every     *)
(* action records the call it made (arguments, table before, result) in   *)
(* the variable `call`, so that contracts of single calls are state       *)
(* predicates.  The routing table of src/src/networkingv6.rs and the      *)
(* popcount loop of src/src/bit_utils.rs follow, each with variables and  *)
(* a specification of its own.                                            *)
(***************************************************************************)
EXTENDS Integers, Sequences, FiniteSets

VARIABLES table, now, call, routing_table, lookup, pop

vars == <<table, now, call, routing_table, lookup, pop>>

\* The routing table, the record of the last lookup, and the popcount loop:
\* the NAT table's methods touch none of them.
routingVars == <<routing_table, lookup, pop>>

natVars == <<table, now, call>>

(***************************************************************************)
(* Bounds.  U16_MAX stands for u16::MAX (65535): the port type has the    *)
(* values 0..U16_MAX, so the port space has U16_MAX + 1 ports.  MaxTime   *)
(* caps the clock.                                                        *)
(***************************************************************************)
U16_MAX == 2

MaxTime == 1

Ports == 0..U16_MAX

\* Lease durations handed to the table (Duration values, in clock ticks).
Durations == {1, 2}

\* Owner identifiers (the u16 `computer`).
Computers == {12}

\* NatTable.translated_addr, as the demonstration sets it.
translated_addr == "103.5.150.9"

private_addr == "10.100.1.1"

remote_addr == "192.168.1.1"

\* Source addresses of outgoing packets: the private host.
SourceAddrs == {private_addr}

\* Source ports of the packets and requests handed to the table.
SourcePorts == 0..1

\* Option<T>: None, or Some(v).
None == <<>>

Some(v) == <<v>>

unwrap(o) == o[1]

NatEntry(ip, port, me, mangled, instant, duration) ==
    [source_ip |-> ip, source_port |-> port, computer |-> me,
     mangled_port |-> mangled, mapped_on_time |-> instant,
     time_to_live |-> duration]

RandomTransportPacket(ttl, sip, dip, sport, dport) ==
    [time_to_live |-> ttl, source_ip |-> sip, destination_ip |-> dip,
     source_port |-> sport, destination_port |-> dport]

\* Iterator::find: the first element of sequence s at one of the positions
\* hits, the positions whose element satisfies the closure.
find(s, hits) ==
    IF hits = {} THEN None
    ELSE Some(s[CHOOSE i \in hits : \A j \in hits : i <= j])

\* Mutant of has_available_port: compares the entry's original source port
\* instead of its mangled port.
has_available_port_by_source_port(t, port) ==
    find(t, {i \in DOMAIN t : t[i].source_port = port}) = None

has_available_port(t, port) ==
    find(t, {i \in DOMAIN t : t[i].mangled_port = port}) = None

\* The half-open range 0..u16::MAX of the scan.
ScannedPorts == 0..(U16_MAX - 1)

\* Mutant of extract_available_port: takes the last free port of the scan
\* instead of the first.
extract_highest_available_port(t) ==
    LET free == {port \in ScannedPorts :
                    find(t, {i \in DOMAIN t : t[i].mangled_port = port}) = None}
    IN  IF free = {} THEN None
        ELSE Some(CHOOSE port \in free : \A q \in free : port >= q)

extract_available_port(t) ==
    LET free == {port \in ScannedPorts : has_available_port(t, port)}
    IN  IF free = {} THEN None
        ELSE Some(CHOOSE port \in free : \A q \in free : port <= q)

\* Instant::duration_since saturates at zero.
duration_since(later, earlier) ==
    IF later >= earlier THEN later - earlier ELSE 0

\* Mutant of prune_unnecessary_ports: keeps an entry whose age equals its
\* time-to-live (<= for <).
prune_keeping_at_deadline(t, new_now) ==
    SelectSeq(t, LAMBDA e :
        duration_since(new_now, e.mapped_on_time) <= e.time_to_live)

\* Mutant of prune_unnecessary_ports: when no lease has elapsed it evicts
\* the oldest entry to make room.
prune_evicting_oldest(t, new_now) ==
    LET kept == SelectSeq(t, LAMBDA e :
                    duration_since(new_now, e.mapped_on_time) < e.time_to_live)
    IN  IF kept = t /\ t # <<>> THEN Tail(t) ELSE kept

prune_unnecessary_ports(t, new_now) ==
    SelectSeq(t, LAMBDA e :
        duration_since(new_now, e.mapped_on_time) < e.time_to_live)

\* Mutant of give_me_a_port: on exhaustion it empties the table instead of
\* pruning the elapsed leases.
give_me_a_port_clearing(t, clock, my_ip, my_port, me, duration) ==
    LET first  == extract_available_port(t)
        pruned == IF first # None THEN t ELSE <<>>
        avail  == IF first # None THEN first ELSE extract_available_port(pruned)
    IN  IF avail = None
        THEN [table |-> pruned, result |-> None]
        ELSE [table |-> Append(pruned,
                  NatEntry(my_ip, my_port, me, unwrap(avail), clock, duration)),
              result |-> Some(<<translated_addr, unwrap(avail)>>)]

\* Mutant of give_me_a_port: prunes on every call, not only on exhaustion.
give_me_a_port_pruning_first(t, clock, my_ip, my_port, me, duration) ==
    LET pruned == prune_unnecessary_ports(t, clock)
        avail  == extract_available_port(pruned)
    IN  IF avail = None
        THEN [table |-> pruned, result |-> None]
        ELSE [table |-> Append(pruned,
                  NatEntry(my_ip, my_port, me, unwrap(avail), clock, duration)),
              result |-> Some(<<translated_addr, unwrap(avail)>>)]

\* The table after the call and the value returned.
give_me_a_port(t, clock, my_ip, my_port, me, duration) ==
    LET first  == extract_available_port(t)
        pruned == IF first # None THEN t ELSE prune_unnecessary_ports(t, clock)
        avail  == IF first # None THEN first ELSE extract_available_port(pruned)
    IN  IF avail = None
        THEN [table |-> pruned, result |-> None]
        ELSE [table |-> Append(pruned,
                  NatEntry(my_ip, my_port, me, unwrap(avail), clock, duration)),
              result |-> Some(<<translated_addr, unwrap(avail)>>)]

\* Mutant of found_on_nat: an entry whose lease has elapsed is no longer
\* found.
found_on_nat_live_only(t, ip_addr, port) ==
    find(t, {i \in DOMAIN t :
        /\ t[i].source_ip = ip_addr /\ t[i].source_port = port
        /\ now - t[i].mapped_on_time < t[i].time_to_live})

found_on_nat(t, ip_addr, port) ==
    find(t, {i \in DOMAIN t :
        t[i].source_ip = ip_addr /\ t[i].source_port = port})

\* Mutant of translate_incoming: looks the destination port up among the
\* entries' original source ports instead of their mangled ports.
translate_incoming_by_source_port(t, packet) ==
    LET nat_entry == find(t, {i \in DOMAIN t :
                        t[i].source_port = packet.destination_port})
    IN  IF nat_entry = None THEN None
        ELSE Some(<<[packet EXCEPT
                       !.destination_ip = unwrap(nat_entry).source_ip,
                       !.destination_port = unwrap(nat_entry).source_port],
                    unwrap(nat_entry).computer>>)

translate_incoming(t, packet) ==
    LET nat_entry == find(t, {i \in DOMAIN t :
                        t[i].mangled_port = packet.destination_port})
    IN  IF nat_entry = None THEN None
        ELSE Some(<<[packet EXCEPT
                       !.destination_ip = unwrap(nat_entry).source_ip,
                       !.destination_port = unwrap(nat_entry).source_port],
                    unwrap(nat_entry).computer>>)

translate_outgoing(t, clock, packet, computer) ==
    LET hit == found_on_nat(t, packet.source_ip, packet.source_port)
        p1  == IF hit # None
               THEN [packet EXCEPT !.source_ip = translated_addr,
                                   !.source_port = unwrap(hit).mangled_port]
               ELSE packet
        g   == give_me_a_port(t, clock, p1.source_ip, p1.source_port,
                              computer, p1.time_to_live)
    IN  IF g.result = None
        THEN [table |-> g.table, result |-> None]
        ELSE [table |-> g.table,
              result |-> Some([p1 EXCEPT !.source_ip = unwrap(g.result)[1],
                                         !.source_port = unwrap(g.result)[2]])]

----------------------------------------------------------------------------
NoPacket == RandomTransportPacket(0, "", "", 0, 0)

Call(op, pre, request, me, result) ==
    [op |-> op, pre |-> pre, request |-> request, computer |-> me,
     result |-> result]

OutgoingPackets ==
    {RandomTransportPacket(d, ip, remote_addr, sp, 0) :
        d \in Durations, ip \in SourceAddrs, sp \in SourcePorts}

IncomingPackets ==
    {RandomTransportPacket(1, remote_addr, translated_addr, 0, dp) :
        dp \in Ports}

\* No routing table, no lookup, no popcount call.
NoRouting ==
    /\ routing_table = <<>>
    /\ lookup = [op |-> "new", ipaddr |-> 0, result |-> None]
    /\ pop = [input |-> 0, a |-> 0, i |-> 0, pc |-> "done"]

Init ==
    /\ table = <<>>
    /\ now = 0
    /\ call = Call("new", <<>>, NoPacket, 0, None)
    /\ NoRouting

\* A table written as a struct literal, as test_translation_incoming does:
\* entries on any ports of the port space, no port used twice.
LiteralEntry(p, d) == NatEntry(private_addr, p, 12, p, 0, d)

RECURSIVE LiteralTables(_)
LiteralTables(p) ==
    IF p > U16_MAX THEN {<<>>}
    ELSE LET rest == LiteralTables(p + 1)
         IN  rest \cup {<<LiteralEntry(p, d)>> \o r : d \in Durations, r \in rest}

InitLiteral ==
    /\ table \in LiteralTables(0)
    /\ now = 0
    /\ call = Call("new", table, NoPacket, 0, None)
    /\ NoRouting

GiveMeAPort ==
    \E ip \in SourceAddrs, port \in SourcePorts, me \in Computers,
       d \in Durations :
        LET g == give_me_a_port(table, now, ip, port, me, d)
        IN  /\ table' = g.table
            /\ call' = Call("give_me_a_port", table,
                            RandomTransportPacket(d, ip, "", port, 0), me,
                            g.result)
            /\ UNCHANGED <<now, routingVars>>

PruneUnnecessaryPorts ==
    /\ table' = prune_unnecessary_ports(table, now)
    /\ call' = Call("prune_unnecessary_ports", table, NoPacket, 0, None)
    /\ UNCHANGED <<now, routingVars>>

TranslateIncoming ==
    \E packet \in IncomingPackets :
        /\ call' = Call("translate_incoming", table, packet, 0,
                        translate_incoming(table, packet))
        /\ UNCHANGED <<table, now, routingVars>>

TranslateOutgoing ==
    \E packet \in OutgoingPackets, computer \in Computers :
        LET r == translate_outgoing(table, now, packet, computer)
        IN  /\ table' = r.table
            /\ call' = Call("translate_outgoing", table, packet, computer,
                            r.result)
            /\ UNCHANGED <<now, routingVars>>

\* The monotonic clock advances between calls.
Tick ==
    /\ now < MaxTime
    /\ now' = now + 1
    /\ call' = Call("tick", table, NoPacket, 0, None)
    /\ UNCHANGED <<table, routingVars>>

Next ==
    \/ GiveMeAPort
    \/ PruneUnnecessaryPorts
    \/ TranslateIncoming
    \/ TranslateOutgoing
    \/ Tick

\* The table driven through translate_outgoing alone, with prunes and clock
\* advances.
NextOutgoing ==
    \/ PruneUnnecessaryPorts
    \/ TranslateOutgoing
    \/ Tick

SpecOutgoing == Init /\ [][NextOutgoing]_vars

Spec == Init /\ [][Next]_vars

SpecLiteral == InitLiteral /\ [][Next]_vars

----------------------------------------------------------------------------
(***************************************************************************)
(* src/src/bit_utils.rs: popcount, on unsigned integers.                   *)
(***************************************************************************)
\* The width of the unsigned type popcount is run on (u8).
PopBits == 8

RECURSIVE Pow2(_)
Pow2(n) == IF n = 0 THEN 1 ELSE 2 * Pow2(n - 1)

\* The operator & on unsigned integers.
RECURSIVE BitAnd(_, _)
BitAnd(x, y) ==
    IF x = 0 \/ y = 0 THEN 0
    ELSE (x % 2) * (y % 2) + 2 * BitAnd(x \div 2, y \div 2)

\* Mutant of popcount_body: shifts the value right instead of clearing its
\* lowest set bit.
popcount_body_shifting(a) == a \div 2

\* The loop body's assignment, a &= a - 1.
popcount_body(a) == BitAnd(a, a - 1)

\* The whole loop, from a with i iterations counted so far.
RECURSIVE popcount_loop(_, _)
popcount_loop(a, i) ==
    IF a # 0 THEN popcount_loop(popcount_body(a), i + 1) ELSE i

popcount(a) == popcount_loop(a, 0)

\* The loop, one iteration at a time.
InitPopcount ==
    /\ table = <<>>
    /\ now = 0
    /\ call = Call("new", <<>>, NoPacket, 0, None)
    /\ routing_table = <<>>
    /\ lookup = [op |-> "new", ipaddr |-> 0, result |-> None]
    /\ \E a \in 0..(Pow2(PopBits) - 1) :
          pop = [input |-> a, a |-> a, i |-> 0, pc |-> "while"]

PopcountIterate ==
    /\ pop.pc = "while"
    /\ pop.a # 0
    /\ pop' = [pop EXCEPT !.a = popcount_body(pop.a), !.i = pop.i + 1]
    /\ UNCHANGED <<natVars, routing_table, lookup>>

PopcountReturn ==
    /\ pop.pc = "while"
    /\ pop.a = 0
    /\ pop' = [pop EXCEPT !.pc = "done"]
    /\ UNCHANGED <<natVars, routing_table, lookup>>

NextPopcount ==
    \/ PopcountIterate
    \/ PopcountReturn

\* A running loop keeps running: nothing else shares its thread.
SpecPopcount ==
    InitPopcount /\ [][NextPopcount]_vars /\ WF_vars(NextPopcount)

----------------------------------------------------------------------------
(***************************************************************************)
(* src/src/networkingv6.rs: the routing table.  An Ipv6Addr is its u128   *)
(* value; AddrBits stands for the 128 bits of it.                         *)
(***************************************************************************)
AddrBits == 18

MaxRoutes == 2

\* The mask of a prefix of k leading ones.
PrefixMask(k) == Pow2(AddrBits) - Pow2(AddrBits - k)

\* One bit inside the first 8 bits, one inside bits 9..16, one after them.
HighBit == Pow2(AddrBits - 1)

MidBit == Pow2(AddrBits - 9)

LowBit == Pow2(0)

Interface(kind, value) == [kind |-> kind, value |-> value]

Route(destination, mask_, next_hop) ==
    [destination |-> destination, mask |-> mask_, next_hop |-> next_hop]

count_contiguous_ones(self) == popcount(self)

\* Ipv6Addr::mask: both `ip` and the local `mask` are read from self.
mask(self, mask_) ==
    LET ip       == self
        mask_128 == self
        result   == BitAnd(ip, mask_128)
    IN  result

matches(route, ipaddr) == mask(ipaddr, route.mask) = route.destination

\* Iterator::max_by_key over the rest s of the iterator, best being the
\* maximum so far: a later element with an equal key replaces it.
RECURSIVE max_by_key(_, _)
max_by_key(s, best) ==
    IF s = <<>> THEN best
    ELSE max_by_key(Tail(s),
            IF count_contiguous_ones(Head(s).mask)
                  >= count_contiguous_ones(best.mask)
            THEN Head(s) ELSE best)

\* Mutant of find_best_route: an equal key does not replace the maximum so
\* far (the first maximum wins).
RECURSIVE max_by_key_first(_, _)
max_by_key_first(s, best) ==
    IF s = <<>> THEN best
    ELSE max_by_key_first(Tail(s),
            IF count_contiguous_ones(Head(s).mask)
                  > count_contiguous_ones(best.mask)
            THEN Head(s) ELSE best)

find_best_route_first_max(t, ipaddr) ==
    LET filtered == SelectSeq(t, LAMBDA route : matches(route, ipaddr))
    IN  IF filtered = <<>> THEN None
        ELSE Some(max_by_key_first(Tail(filtered), Head(filtered)))

\* Mutant of find_best_route: takes the last matching route, whatever its
\* mask.
find_best_route_last_match(t, ipaddr) ==
    LET filtered == SelectSeq(t, LAMBDA route : matches(route, ipaddr))
    IN  IF filtered = <<>> THEN None
        ELSE Some(filtered[Len(filtered)])

find_best_route(t, ipaddr) ==
    LET filtered == SelectSeq(t, LAMBDA route : matches(route, ipaddr))
    IN  IF filtered = <<>> THEN None
        ELSE Some(max_by_key(Tail(filtered), Head(filtered)))

find_next_hop(t, ipaddr) ==
    LET route == find_best_route(t, ipaddr)
    IN  IF route # None THEN Some(unwrap(route).next_hop) ELSE None

\* The addresses looked up: every combination of the three bits.
QueryAddrs ==
    {h + m + l : h \in {0, HighBit}, m \in {0, MidBit}, l \in {0, LowBit}}

\* The routes a table literal is written with.  Nothing checks that a
\* destination is reduced by its mask.
Routes ==
    {Route(d, m, hop) :
        d \in {HighBit, HighBit + MidBit},
        m \in {PrefixMask(8), PrefixMask(16)},
        hop \in {Interface("Port", 30), Interface("IpAddr", HighBit)}}

RECURSIVE RoutingTables(_)
RoutingTables(n) ==
    IF n = 0 THEN {<<>>}
    ELSE LET shorter == RoutingTables(n - 1)
         IN  shorter \cup {Append(t, r) : t \in shorter, r \in Routes}

InitRouting ==
    /\ table = <<>>
    /\ now = 0
    /\ call = Call("new", <<>>, NoPacket, 0, None)
    /\ routing_table \in RoutingTables(MaxRoutes)
    /\ lookup = [op |-> "new", ipaddr |-> 0, result |-> None]
    /\ pop = [input |-> 0, a |-> 0, i |-> 0, pc |-> "done"]

FindBestRoute ==
    \E ipaddr \in QueryAddrs :
        /\ lookup' = [op |-> "find_best_route", ipaddr |-> ipaddr,
                      result |-> find_best_route(routing_table, ipaddr)]
        /\ UNCHANGED <<natVars, routing_table, pop>>

FindNextHop ==
    \E ipaddr \in QueryAddrs :
        /\ lookup' = [op |-> "find_next_hop", ipaddr |-> ipaddr,
                      result |-> find_next_hop(routing_table, ipaddr)]
        /\ UNCHANGED <<natVars, routing_table, pop>>

NextRouting ==
    \/ FindBestRoute
    \/ FindNextHop

SpecRouting == InitRouting /\ [][NextRouting]_vars

----------------------------------------------------------------------------
(***************************************************************************)
(* Vocabulary of the properties.                                           *)
(***************************************************************************)
Entries(t) == {t[i] : i \in 1..Len(t)}

MangledPorts(t) == {t[i].mangled_port : i \in 1..Len(t)}

Age(e) == now - e.mapped_on_time

Elapsed(e) == Age(e) >= e.time_to_live

\* The calls that allocate, and the port a successful one handed out.
Allocating == call.op \in {"give_me_a_port", "translate_outgoing"}

AllocatedPort ==
    IF call.op = "give_me_a_port" THEN unwrap(call.result)[2]
    ELSE unwrap(call.result).source_port

\* The table the new entry was pushed onto.
BeforePush == SubSeq(table, 1, Len(table) - 1)

LowestFree(t) ==
    CHOOSE p \in Ports \ MangledPorts(t) :
        \A q \in Ports \ MangledPorts(t) : p <= q

FoundBefore ==
    found_on_nat(call.pre, call.request.source_ip, call.request.source_port)

\* The reply to a translated packet q, as the remote host sends it back.
Reply(q) ==
    RandomTransportPacket(q.time_to_live, q.destination_ip, q.source_ip,
                          q.destination_port, q.source_port)

----------------------------------------------------------------------------
\* C1: in every state reached from the empty table, no two entries of the
\* table share a mangled port.
C1_UniqueMangledPorts ==
    \A i, j \in 1..Len(table) :
        i # j => table[i].mangled_port # table[j].mangled_port

\* A full table on which an allocation pruned, retried and succeeded.
C1_Witness ==
    /\ Allocating
    /\ call.result # None
    /\ Len(call.pre) = U16_MAX
    /\ Len(table) >= 2

\* C2: a packet translated outgoing and answered on the port it was given
\* is translated back to the packet's original source address and port,
\* also when the source endpoint already had an entry.
C2_RoundTrip ==
    (call.op = "translate_outgoing" /\ call.result # None) =>
        LET back == translate_incoming(table, Reply(unwrap(call.result)))
        IN  /\ back # None
            /\ unwrap(back)[1].destination_ip = call.request.source_ip
            /\ unwrap(back)[1].destination_port = call.request.source_port

\* C3: translate_outgoing of a packet whose source endpoint has an entry
\* returns the packet with that entry's mangled port and the public address.
C3_ReusesMangledPort ==
    (call.op = "translate_outgoing" /\ FoundBefore # None
        /\ call.result # None) =>
        /\ unwrap(call.result).source_port = unwrap(FoundBefore).mangled_port
        /\ unwrap(call.result).source_ip = translated_addr

\* C4: translate_outgoing of a packet whose source endpoint has an entry
\* leaves the entry collection as it was.
C4_FoundLeavesTable ==
    (call.op = "translate_outgoing" /\ FoundBefore # None) =>
        table = call.pre

\* C5: a successful allocation hands out the lowest port of the port space
\* that no entry holds: of the table as it was when no prune was needed, of
\* the pruned table after a prune and retry.
C5_LowestFreePort ==
    (Allocating /\ call.result # None) =>
        /\ AllocatedPort = LowestFree(BeforePush)
        /\ BeforePush # call.pre =>
              /\ ScannedPorts \subseteq MangledPorts(call.pre)
              /\ Entries(BeforePush) = {e \in Entries(call.pre) : ~Elapsed(e)}
        /\ BeforePush = call.pre =>
              AllocatedPort = LowestFree(call.pre)

\* An allocation below a port that is still held: the scan filled a gap.
C5_Witness ==
    /\ call.op = "give_me_a_port"
    /\ call.result # None
    /\ BeforePush = call.pre
    /\ \E p \in MangledPorts(call.pre) : AllocatedPort < p

\* C6: the scan reports no free port only when every port of the port space
\* is held by some entry.
C6_FullPortSpaceScan ==
    extract_available_port(table) = None =>
        Ports \subseteq MangledPorts(table)

\* C7: on a table whose entries hold every port of the port space,
\* give_me_a_port fails while no lease has elapsed, and once leases have
\* elapsed it succeeds with a port one of the elapsed entries held.
C7_ExhaustionRecovery ==
    (call.op = "give_me_a_port" /\ Ports \subseteq MangledPorts(call.pre)) =>
        LET gone == {e \in Entries(call.pre) : Elapsed(e)}
        IN  /\ gone = {} => call.result = None
            /\ gone # {} =>
                  /\ call.result # None
                  /\ AllocatedPort \in {e.mangled_port : e \in gone}

\* C8: an allocation that fails leaves the entry collection as it was.
C8_NoPartialMutation ==
    (Allocating /\ call.result = None) => table = call.pre

\* C9: a prune removes exactly the entries whose age has reached their
\* time-to-live and keeps every other one.
C9_PruneExact ==
    call.op = "prune_unnecessary_ports" =>
        /\ Entries(table) = {e \in Entries(call.pre) : Age(e) < e.time_to_live}
        /\ \A e \in Entries(call.pre) :
              Age(e) >= e.time_to_live => e \notin Entries(table)
        /\ Len(table) = Cardinality(Entries(table))

\* A prune that removed an entry whose age equals its time-to-live and kept
\* a younger one.
C9_Witness ==
    /\ call.op = "prune_unnecessary_ports"
    /\ \E e \in Entries(call.pre) :
          Age(e) = e.time_to_live /\ e \notin Entries(table)
    /\ \E e \in Entries(call.pre) :
          Age(e) < e.time_to_live /\ e \in Entries(table)

\* C10: a prune that follows a prune with no clock advance in between
\* changes nothing.
C10_PruneIdempotent ==
    [][(call.op = "prune_unnecessary_ports"
            /\ call'.op = "prune_unnecessary_ports") => table' = table]_vars

\* A prune of a table an earlier prune has already cut (port 0 was freed and
\* a later port is still held), which removed nothing.
C10_Witness ==
    /\ call.op = "prune_unnecessary_ports"
    /\ call.pre = table
    /\ table # <<>>
    /\ 0 \notin MangledPorts(table)

\* C11: an entry leaves the table only in a prune (a prune call, or the
\* prune of an exhausted allocation) and only once its age has reached its
\* time-to-live; until then it stays, with every field as it was.
C11_LeaseSafety ==
    [][\A e \in Entries(table) :
          e \notin Entries(table') =>
              /\ Age(e) >= e.time_to_live
              /\ call'.op \in {"prune_unnecessary_ports", "give_me_a_port",
                               "translate_outgoing"}]_vars

\* An exhausted allocation whose prune removed an elapsed entry and kept an
\* entry whose lease still runs.
C11_Witness ==
    /\ Allocating
    /\ \E e \in Entries(call.pre) : Elapsed(e) /\ e \notin Entries(table)
    /\ \E e \in Entries(call.pre) : ~Elapsed(e) /\ e \in Entries(table)

\* The entries of the table before the call that hold the destination port
\* of the incoming packet.
IncomingHits ==
    {e \in Entries(call.pre) :
        e.mangled_port = call.request.destination_port}

\* C12: translate_incoming returns a result exactly when some entry holds
\* the packet's destination port; the result carries that entry's original
\* address and port as destination, its owner as client, and the packet's
\* source untouched.
C12_TranslateIncoming ==
    call.op = "translate_incoming" =>
        /\ call.result = None <=> IncomingHits = {}
        /\ call.result # None =>
              \E e \in IncomingHits :
                  /\ unwrap(call.result)[1] =
                        [call.request EXCEPT
                            !.destination_ip = e.source_ip,
                            !.destination_port = e.source_port]
                  /\ unwrap(call.result)[2] = e.computer
                  /\ unwrap(call.result)[1].source_ip = call.request.source_ip
                  /\ unwrap(call.result)[1].source_port =
                        call.request.source_port
        /\ table = call.pre

\* An incoming packet translated by an entry that is not the first of the
\* table and whose original port differs from its mangled port.
C12_Witness ==
    /\ call.op = "translate_incoming"
    /\ call.result # None
    /\ Len(table) >= 2
    /\ table[1].mangled_port # call.request.destination_port
    /\ unwrap(call.result)[1].destination_port #
          call.request.destination_port

\* C17: an entry whose lease has elapsed and that no prune has removed still
\* holds its port (has_available_port refuses it and the scan does not hand
\* it out), is still found by found_on_nat and still translates incoming
\* packets.
C17_TtlOnlyInPrune ==
    \A e \in Entries(table) :
        Elapsed(e) =>
            /\ ~has_available_port(table, e.mangled_port)
            /\ extract_available_port(table) # Some(e.mangled_port)
            /\ found_on_nat(table, e.source_ip, e.source_port) # None
            /\ translate_incoming(table,
                  RandomTransportPacket(1, remote_addr, translated_addr, 0,
                                        e.mangled_port))
                  = Some(<<RandomTransportPacket(1, remote_addr, e.source_ip,
                                                 0, e.source_port),
                           e.computer>>)

\* An incoming packet translated by an entry whose lease has elapsed.
C17_Witness ==
    /\ call.op = "translate_incoming"
    /\ call.result # None
    /\ \E e \in IncomingHits : Elapsed(e) /\ e \in Entries(table)

\* C18: give_me_a_port called while a scanned port is free removes nothing
\* and appends one entry, at the end, recording the request, the allocated
\* port and the current instant.
C18_AppendsOneEntry ==
    (call.op = "give_me_a_port"
        /\ ScannedPorts \ MangledPorts(call.pre) # {}) =>
        /\ call.result # None
        /\ table = Append(call.pre,
              NatEntry(call.request.source_ip, call.request.source_port,
                       call.computer, AllocatedPort, now,
                       call.request.time_to_live))

\* An allocation on a table that held an elapsed entry and a free port: the
\* elapsed entry is still there.
C18_Witness ==
    /\ call.op = "give_me_a_port"
    /\ call.result # None
    /\ \E e \in Entries(call.pre) : Elapsed(e) /\ e \in Entries(table)
    /\ Len(table) = Len(call.pre) + 1

\* C19: driven by translate_outgoing, prunes and clock advances alone, no
\* two entries record the same source address and port, and every entry
\* records the private endpoint of a translated packet, never the public
\* address.
C19_OneMappingPerEndpoint ==
    /\ \A i, j \in 1..Len(table) :
          i # j => <<table[i].source_ip, table[i].source_port>> #
                   <<table[j].source_ip, table[j].source_port>>
    /\ \A e \in Entries(table) :
          /\ e.source_ip \in SourceAddrs
          /\ e.source_port \in SourcePorts
          /\ e.source_ip # translated_addr

----------------------------------------------------------------------------
(***************************************************************************)
(* Vocabulary of the routing properties.                                   *)
(***************************************************************************)
\* The number of set bits of x, bit by bit.
RECURSIVE BitCount(_)
BitCount(x) == IF x = 0 THEN 0 ELSE (x % 2) + BitCount(x \div 2)

\* The positions of the routes that match the address looked up.
Matching ==
    {i \in DOMAIN routing_table : matches(routing_table[i], lookup.ipaddr)}

\* Those of them whose mask has the greatest set-bit count.
Widest ==
    {i \in Matching :
        \A j \in Matching : BitCount(routing_table[j].mask)
                              <= BitCount(routing_table[i].mask)}

\* C13: mask is the bitwise AND of the address with the route's mask, and a
\* route matches exactly the addresses whose AND with its mask is its
\* destination.
C13_MaskIsBitAnd ==
    lookup.op # "new" =>
        \A i \in DOMAIN routing_table :
            LET r == routing_table[i]
            IN  /\ mask(lookup.ipaddr, r.mask) = BitAnd(lookup.ipaddr, r.mask)
                /\ matches(r, lookup.ipaddr) <=>
                      BitAnd(lookup.ipaddr, r.mask) = r.destination

\* C14: find_best_route returns nothing exactly when no route matches, and
\* otherwise a matching route whose mask has the greatest set-bit count of
\* all matching routes; find_next_hop returns that route's next hop, or
\* nothing.
C14_BestRoute ==
    /\ lookup.op = "find_best_route" =>
          /\ lookup.result = None <=> Matching = {}
          /\ lookup.result # None =>
                \E i \in Widest : lookup.result = Some(routing_table[i])
    /\ lookup.op = "find_next_hop" =>
          /\ lookup.result = None <=> Matching = {}
          /\ lookup.result # None =>
                /\ lookup.result =
                      Some(unwrap(find_best_route(routing_table,
                                                  lookup.ipaddr)).next_hop)
                /\ \E i \in Widest :
                      lookup.result = Some(routing_table[i].next_hop)

\* A lookup that two routes match, the wider mask first in the table, its
\* route returned.
C14_Witness ==
    /\ lookup.op = "find_best_route"
    /\ lookup.result # None
    /\ Matching = {1, 2}
    /\ Widest = {1}

\* C15 as stated: of the matching routes with the greatest set-bit count,
\* the first in the table is returned.
C15_FirstMaxWins ==
    (lookup.op = "find_best_route" /\ lookup.result # None) =>
        lookup.result =
            Some(routing_table[CHOOSE i \in Widest : \A j \in Widest : i <= j])

\* C15 as amended: of the matching routes with the greatest set-bit count,
\* the last in the table is returned.
C15_LastMaxWins ==
    (lookup.op = "find_best_route" /\ lookup.result # None) =>
        lookup.result =
            Some(routing_table[CHOOSE i \in Widest : \A j \in Widest : i >= j])

\* A lookup with two different matching routes of the same greatest count.
C15_Witness ==
    /\ lookup.op = "find_best_route"
    /\ lookup.result # None
    /\ \E i, j \in Widest : i < j /\ routing_table[i] # routing_table[j]

\* C16: with a table of two routes, one with the 8-bit prefix mask and one
\* with the 16-bit prefix mask, each with the address reduced by its own
\* mask as destination, find_best_route returns the 16-bit route, in either
\* order of the two.
C16_LongestPrefix ==
    (lookup.op = "find_best_route" /\ Len(routing_table) = 2) =>
        \A i, j \in {1, 2} :
            LET r8  == routing_table[i]
                r16 == routing_table[j]
            IN  (/\ i # j
                 /\ r8.mask = PrefixMask(8)
                 /\ r8.destination = BitAnd(lookup.ipaddr, PrefixMask(8))
                 /\ r16.mask = PrefixMask(16)
                 /\ r16.destination = BitAnd(lookup.ipaddr, PrefixMask(16)))
                => lookup.result = Some(r16)

\* C20: popcount terminates on every input of the width and returns the
\* number of set bits of the input (0 for 0, 4 for 15, the width for the
\* all-ones value); count_contiguous_ones of the same value is that count.
C20_Popcount ==
    /\ <>(pop.pc = "done")
    /\ [](pop.pc = "done" =>
            /\ pop.i = BitCount(pop.input)
            /\ pop.input = 0 => pop.i = 0
            /\ pop.input = 15 => pop.i = 4
            /\ pop.input = Pow2(PopBits) - 1 => pop.i = PopBits
            /\ count_contiguous_ones(pop.input) = BitCount(pop.input))

\* The loop has returned on the all-ones input.
C20_Witness ==
    /\ pop.pc = "done"
    /\ pop.input = Pow2(PopBits) - 1
    /\ pop.i = PopBits
    /\ pop.i > 0

=============================================================================
